---- MODULE Spec2Model ----
(***************************************************************************)
(* A model of the AVL tree library of src/src/avl.c.                       *)
(*                                                                         *)
(* Memory is a heap of avl_node structs indexed by address.  `live` is the *)
(* set of addresses malloc has handed out and free has not yet taken back. *)
(* An address that was freed but is still referenced by a tree keeps the   *)
(* bytes it had (a stale read), or the access faults (`crashed`).  malloc  *)
(* returns an address that no tree and no caller variable still holds.     *)
(* Payloads are the integers the demonstration program stores in `value`,  *)
(* ordered by its `compare`.  Of the hooks of a tree only the comparator   *)
(* is kept in the struct: nodes are made, copied and freed the default way.*)
(***************************************************************************)
EXTENDS Integers, Sequences, FiniteSets, TLC

MaxNodes == 4
MaxKey == 4

NULL == 0
\* the address of compare, the comparator the test driver installs
Compare == 1
\* the addresses malloc hands out: room for a tree of MaxNodes nodes and a copy
Addr == 1..(2 * MaxNodes)
Probe == 2 * MaxNodes + 1    \* the caller's own node, the key probe of find and delete
Keys == 1..MaxKey

VARIABLES
    heap,      \* address -> avl_node struct (left, right, height, value)
    live,      \* addresses allocated and not freed
    tree,      \* tree id -> avl struct (root, height, cmp_node)
    made,      \* the ids of the trees that exist (avl_new, avl_dup) and are not freed
    item,      \* the node avl_insert did not take, still the caller's, or NULL
    op,        \* the facade function that returned last, or the place in the
               \* loop of _avl_destroy while avl_free runs step by step
    rv,        \* what it returned; inside _avl_destroy, its local root
    out,       \* the nodes the last avl_walk passed to its action, in order, or
               \* the calls of free the last avl_delete or avl_free made
    pre,       \* heap, live, trees and the arguments (tree t, node arg) at that call
    crashed    \* an access to freed memory or a call of a null comparator faulted

vars == <<heap, live, tree, made, item, op, rv, out, pre, crashed>>

\* memset(n, 0, sizeof(avl_node))
Zeroed == [left |-> NULL, right |-> NULL, height |-> 0, value |-> 0]

----------------------------------------------------------------------------
(* Node primitives                                                         *)

compare(h, a, b) ==
    IF h[a].value < h[b].value THEN -1
    ELSE IF h[a].value > h[b].value THEN 1
    ELSE 0

height(h, n) == IF n = NULL THEN 0 ELSE h[n].height

max(a, b) == IF a > b THEN a ELSE b

avl_get_balance(h, n) ==
    IF n = NULL THEN 0 ELSE height(h, h[n].left) - height(h, h[n].right)

\* n->height = 1 + max(height(n->left), height(n->right))
SetHeight(h, n) ==
    [h EXCEPT ![n].height = 1 + max(height(h, h[n].left), height(h, h[n].right))]

\* a subtree handed back: the heap as it is left and the subtree's root
Ret(h, r) == [h |-> h, r |-> r]

avl_rotate_right(h, y) ==
    LET x  == h[y].left
        T2 == h[x].right
    IN  Ret(SetHeight(SetHeight([h EXCEPT ![x].right = y, ![y].left = T2], y), x), x)

avl_rotate_left(h, x) ==
    LET y  == h[x].right
        T2 == h[y].left
    IN  Ret(SetHeight(SetHeight([h EXCEPT ![y].left = x, ![x].right = T2], x), y), y)

RECURSIVE minimum_node(_, _)
minimum_node(h, n) ==
    IF h[n].left # NULL THEN minimum_node(h, h[n].left) ELSE n

----------------------------------------------------------------------------
(* Recursive core: each returns the heap it leaves and the new subtree     *)
(* root r.                                                                 *)

\* node->left = sub, node->right = sub: sub is what a call handed back
LinkLeft(sub, node) == [sub.h EXCEPT ![node].left = sub.r]
LinkRight(sub, node) == [sub.h EXCEPT ![node].right = sub.r]

\* mutant: the unwind of an insert rotates every node that leans
InsertRebalance_Eager(h, node, it) ==
    IF avl_get_balance(h, node) >= 1 THEN avl_rotate_right(h, node)
    ELSE IF avl_get_balance(h, node) <= -1 THEN avl_rotate_left(h, node)
    ELSE Ret(h, node)

\* mutant: the unwind of an insert knows the single rotations only
InsertRebalance_SingleOnly(h, node, it) ==
    IF avl_get_balance(h, node) > 1 /\ compare(h, it, h[node].left) < 0
      THEN avl_rotate_right(h, node)
    ELSE IF avl_get_balance(h, node) < -1 /\ compare(h, it, h[node].right) > 0
      THEN avl_rotate_left(h, node)
    ELSE Ret(h, node)

\* the four rebalancing cases of _avl_insert, after the height update
InsertRebalance(h, node, it) ==
    LET balance == avl_get_balance(h, node)
    IN  IF balance > 1 /\ compare(h, it, h[node].left) < 0
          THEN avl_rotate_right(h, node)
        ELSE IF balance < -1 /\ compare(h, it, h[node].right) > 0
          THEN avl_rotate_left(h, node)
        ELSE IF balance > 1 /\ compare(h, it, h[node].left) > 0
          THEN avl_rotate_right(LinkLeft(avl_rotate_left(h, h[node].left), node), node)
        ELSE IF balance < -1 /\ compare(h, it, h[node].right) < 0
          THEN avl_rotate_left(LinkRight(avl_rotate_right(h, h[node].right), node), node)
        ELSE Ret(h, node)

RECURSIVE _avl_insert(_, _, _)
_avl_insert(h, node, it) ==
    IF node = NULL THEN Ret(h, it)
    ELSE IF it = NULL THEN Ret(h, node)
    ELSE LET pos == compare(h, it, node)
         IN  IF pos < 0 THEN
                 InsertRebalance(
                     SetHeight(LinkLeft(_avl_insert(h, h[node].left, it), node), node),
                     node, it)
             ELSE IF pos > 0 THEN
                 InsertRebalance(
                     SetHeight(LinkRight(_avl_insert(h, h[node].right, it), node), node),
                     node, it)
             ELSE Ret(h, node)

\* mutant: the unwind of a delete never rotates
DeleteRebalance_NoRotation(h, rt) == Ret(h, rt)

\* mutant: the unwind of a delete rotates a node that leans by one
DeleteRebalance_Eager(h, rt) ==
    IF avl_get_balance(h, rt) >= 1 /\ avl_get_balance(h, h[rt].left) >= 0
      THEN avl_rotate_right(h, rt)
    ELSE IF avl_get_balance(h, rt) <= -1 /\ avl_get_balance(h, h[rt].right) <= 0
      THEN avl_rotate_left(h, rt)
    ELSE Ret(h, rt)

\* the four rebalancing cases of _avl_delete, after the height update
DeleteRebalance(h, rt) ==
    LET balance == avl_get_balance(h, rt)
    IN  IF balance > 1 /\ avl_get_balance(h, h[rt].left) >= 0
          THEN avl_rotate_right(h, rt)
        ELSE IF balance > 1 /\ avl_get_balance(h, h[rt].left) < 0
          THEN avl_rotate_right(LinkLeft(avl_rotate_left(h, h[rt].left), rt), rt)
        ELSE IF balance < -1 /\ avl_get_balance(h, h[rt].right) <= 0
          THEN avl_rotate_left(h, rt)
        ELSE IF balance < -1 /\ avl_get_balance(h, h[rt].right) > 0
          THEN avl_rotate_left(LinkRight(avl_rotate_right(h, h[rt].right), rt), rt)
        ELSE Ret(h, rt)

\* _avl_delete also frees: fr is the sequence of the calls of free, each with
\* the node it was given and the value that node held at that moment
Freed(sub, fr) == [h |-> sub.h, r |-> sub.r, fr |-> fr]

\* free_node(n), or free(n) when the tree has no hook
free_node(h, fr, n) == Append(fr, [node |-> n, value |-> h[n].value])

\* the one-child case once the contents are swapped: the child is freed and
\* the unwind goes on at rt
SwapFree(h, fr, rt, child) ==
    Freed(DeleteRebalance(SetHeight(h, rt), rt), free_node(h, fr, child))

\* the unwind of _avl_delete at rt, sub being what the call below handed back
DeleteLeft(sub, rt) ==
    Freed(DeleteRebalance(SetHeight(LinkLeft(sub, rt), rt), rt), sub.fr)

DeleteRight(sub, rt) ==
    Freed(DeleteRebalance(SetHeight(LinkRight(sub, rt), rt), rt), sub.fr)

\* mutant: the successor's value is copied into the node, not swapped with it
SwapValue_CopyOnly(h, rt, temp) == [h EXCEPT ![rt].value = h[temp].value]

\* the two-children case: the node and its in-order successor swap values
SwapValue(h, rt, temp) ==
    [h EXCEPT ![rt].value = h[temp].value, ![temp].value = h[rt].value]

RECURSIVE _avl_delete(_, _, _, _, _)
_avl_delete(h, fr, rt, target, cmp_node) ==
    IF rt = NULL \/ target = NULL \/ cmp_node = NULL THEN Freed(Ret(h, rt), fr)
    ELSE LET pos == compare(h, target, rt)
         IN  IF pos < 0 THEN
                 DeleteLeft(_avl_delete(h, fr, h[rt].left, target, cmp_node), rt)
             ELSE IF pos > 0 THEN
                 DeleteRight(_avl_delete(h, fr, h[rt].right, target, cmp_node), rt)
             ELSE IF h[rt].left = NULL \/ h[rt].right = NULL THEN
                 LET child == IF h[rt].left # NULL THEN h[rt].left ELSE h[rt].right
                 IN  IF child # NULL
                       THEN SwapFree([h EXCEPT ![rt] = h[child], ![child] = h[rt]],
                                     fr, rt, child)
                       ELSE Freed(Ret(h, NULL), free_node(h, fr, rt))
             ELSE
                 LET temp == minimum_node(h, h[rt].right)
                 IN  DeleteRight(
                         _avl_delete(SwapValue(h, rt, temp), fr, h[rt].right, temp, cmp_node),
                         rt)

RECURSIVE _avl_find(_, _, _)
_avl_find(h, rt, target) ==
    IF rt = NULL \/ target = NULL THEN NULL
    ELSE LET pos == compare(h, target, rt)
         IN  IF pos = 0 THEN rt
             ELSE IF pos < 0 THEN _avl_find(h, h[rt].left, target)
             ELSE _avl_find(h, h[rt].right, target)

RECURSIVE forward_order(_, _)
forward_order(h, rt) ==
    IF rt = NULL THEN <<>>
    ELSE (IF h[rt].left # NULL THEN forward_order(h, h[rt].left) ELSE <<>>)
         \o <<rt>>
         \o (IF h[rt].right # NULL THEN forward_order(h, h[rt].right) ELSE <<>>)

RECURSIVE reverse_order(_, _)
reverse_order(h, rt) ==
    IF rt = NULL THEN <<>>
    ELSE (IF h[rt].right # NULL THEN reverse_order(h, h[rt].right) ELSE <<>>)
         \o <<rt>>
         \o (IF h[rt].left # NULL THEN reverse_order(h, h[rt].left) ELSE <<>>)

RECURSIVE pre_order(_, _)
pre_order(h, rt) ==
    IF rt = NULL THEN <<>>
    ELSE <<rt>> \o pre_order(h, h[rt].left) \o pre_order(h, h[rt].right)

RECURSIVE post_order(_, _)
post_order(h, rt) ==
    IF rt = NULL THEN <<>>
    ELSE post_order(h, h[rt].left) \o post_order(h, h[rt].right) \o <<rt>>

RECURSIVE __tree_order(_, _, _)
__tree_order(h, rt, lvl) ==
    IF rt = NULL THEN <<>>
    ELSE (IF h[rt].height = lvl THEN <<rt>> ELSE <<>>)
         \o __tree_order(h, h[rt].left, lvl)
         \o __tree_order(h, h[rt].right, lvl)

RECURSIVE TreeOrderFrom(_, _, _)
TreeOrderFrom(h, rt, i) ==
    IF i >= 1 THEN __tree_order(h, rt, i) \o TreeOrderFrom(h, rt, i - 1) ELSE <<>>

tree_order(h, rt) ==
    IF rt = NULL THEN <<>> ELSE TreeOrderFrom(h, rt, h[rt].height)

Orders == {"forward", "reverse", "pre", "post", "tree"}

\* mutant: the reverse case walks in post-order
_avl_walk_ReverseIsPost(h, rt, order) ==
    IF rt = NULL THEN <<>>
    ELSE CASE order = "forward" -> forward_order(h, rt)
           [] order \in {"reverse", "post"} -> post_order(h, rt)
           [] order = "pre"     -> pre_order(h, rt)
           [] order = "tree"    -> tree_order(h, rt)

\* mutant: the forward case walks in pre-order
_avl_walk_ForwardIsPre(h, rt, order) ==
    IF rt = NULL THEN <<>>
    ELSE CASE order \in {"forward", "pre"} -> pre_order(h, rt)
           [] order = "reverse" -> reverse_order(h, rt)
           [] order = "post"    -> post_order(h, rt)
           [] order = "tree"    -> tree_order(h, rt)

_avl_walk(h, rt, order) ==
    IF rt = NULL THEN <<>>
    ELSE CASE order = "forward" -> forward_order(h, rt)
           [] order = "reverse" -> reverse_order(h, rt)
           [] order = "pre"     -> pre_order(h, rt)
           [] order = "post"    -> post_order(h, rt)
           [] order = "tree"    -> tree_order(h, rt)

----------------------------------------------------------------------------
(* Memory                                                                  *)

\* the addresses reachable from r through left and right
RECURSIVE ReachFrom(_, _)
ReachFrom(h, S) ==
    LET T == S \cup (({h[n].left : n \in S} \cup {h[n].right : n \in S}) \ {NULL})
    IN  IF T = S THEN S ELSE ReachFrom(h, T)

Reach(h, r) == IF r = NULL THEN {} ELSE ReachFrom(h, {r})

\* free(): the nodes of fr leave the live set
Release(lv, fr) == lv \ {fr[i].node : i \in DOMAIN fr}

\* memory that is neither allocated nor referenced cannot be observed
Scrub(h, lv, refs) ==
    [a \in DOMAIN h |-> IF a \in lv \/ a \in refs THEN h[a] ELSE Zeroed]

\* malloc returns an address that is not allocated and that nothing references
malloc(lv, refs) ==
    CHOOSE x \in Addr \ (lv \cup refs) : \A y \in Addr \ (lv \cup refs) : x <= y

\* _avl_node_new: malloc, memset, value and height 1
_avl_node_new(h, a, value) ==
    [h EXCEPT ![a] = [Zeroed EXCEPT !.value = value, !.height = 1]]

\* mutant: the copy of a node does not get the value
avl_node_dup_NoValue(h, a, node) == _avl_node_new(h, a, 0)

\* avl_node_dup without a dup hook: a new node with the same value
avl_node_dup(h, a, node) ==
    [_avl_node_new(h, a, 0) EXCEPT ![a].value = h[node].value]

\* the middle of dup_tree: duplicate old_root and insert the copy; st is the
\* heap, the live set and *new_root, refs the addresses the other trees hold
DupNode(st, refs, old_root, a) ==
    LET ins == _avl_insert(avl_node_dup(st.h, a, old_root), st.r, a)
    IN  [h |-> ins.h, lv |-> st.lv \cup {a}, r |-> ins.r]

RECURSIVE dup_tree(_, _, _)
DupRight(st, refs, old_root) ==
    IF st.h[old_root].right # NULL THEN dup_tree(st, refs, st.h[old_root].right)
    ELSE st

DupSelf(st, refs, old_root) ==
    DupRight(DupNode(st, refs, old_root, malloc(st.lv, refs \cup Reach(st.h, st.r))),
             refs, old_root)

dup_tree(st, refs, old_root) ==
    IF old_root = NULL THEN st
    ELSE IF st.h[old_root].left # NULL
      THEN DupSelf(dup_tree(st, refs, st.h[old_root].left), refs, old_root)
      ELSE DupSelf(st, refs, old_root)

\* while (root) root = _avl_delete(root, root, compare, free_node)
RECURSIVE _avl_destroy(_, _, _, _)
DestroyAgain(res, cmp_node) == _avl_destroy(res.h, res.fr, res.r, cmp_node)

_avl_destroy(h, fr, rt, cmp_node) ==
    IF rt = NULL THEN Freed(Ret(h, rt), fr)
    ELSE DestroyAgain(_avl_delete(h, fr, rt, rt, cmp_node), cmp_node)

----------------------------------------------------------------------------
(* Tree-level facade: each returns the heap, the live set, the avl struct  *)
(* and the return value.                                                   *)

\* avl_new: malloc and memset
avl_new == [root |-> NULL, height |-> 0, cmp_node |-> NULL]

\* avl_set_cmp(tree, cmp_node)
avl_set_cmp(t, cmp_node) == [t EXCEPT !.cmp_node = cmp_node]

\* mutant: the copy points at the nodes of the source
avl_dup_Shallow(h, lv, t, refs) ==
    [h |-> h, live |-> lv, tree |-> [t EXCEPT !.height = 0]]

\* avl_dup: the new struct is a copy of the old one with no root and height 0,
\* dup_tree fills the root
avl_dup(h, lv, t, refs) ==
    LET st == dup_tree([h |-> h, lv |-> lv, r |-> NULL], refs, t.root)
    IN  [h |-> st.h, live |-> st.lv, tree |-> [t EXCEPT !.root = st.r, !.height = 0]]

avl_free(h, lv, t) ==
    LET res == _avl_destroy(h, <<>>, t.root, t.cmp_node)
    IN  [h |-> res.h, live |-> Release(lv, res.fr), fr |-> res.fr]

\* mutant: avl_insert does not test the node it is given
avl_insert_NoItemTest(h, lv, t, it) ==
    [h |-> _avl_insert(h, t.root, it).h, live |-> lv, rv |-> 0,
     tree |-> [t EXCEPT !.root = _avl_insert(h, t.root, it).r]]

\* mutant: the new root is not stored in the tree
avl_insert_RootNotStored(h, lv, t, it) ==
    [h |-> _avl_insert(h, t.root, it).h, live |-> lv, tree |-> t, rv |-> 0]

avl_insert(h, lv, t, it) ==
    IF it = NULL
      THEN [h |-> h, live |-> lv, tree |-> t, rv |-> -1]
      ELSE LET new == _avl_insert(h, t.root, it)
           IN  IF new.r # NULL
                 THEN [h |-> new.h, live |-> lv, rv |-> 0,
                       tree |-> [t EXCEPT !.root = new.r,
                                          !.height = height(new.h, new.r)]]
                 ELSE [h |-> new.h, live |-> lv, tree |-> t, rv |-> -1]

avl_delete(h, lv, t, target) ==
    IF target = NULL
      THEN [h |-> h, live |-> lv, tree |-> t, rv |-> -1, fr |-> <<>>]
      ELSE LET new == _avl_delete(h, <<>>, t.root, target, t.cmp_node)
           IN  IF new.r # NULL
                 THEN [h |-> new.h, live |-> Release(lv, new.fr), rv |-> 0,
                       tree |-> [t EXCEPT !.root = new.r,
                                          !.height = height(new.h, new.r)],
                       fr |-> new.fr]
                 ELSE [h |-> new.h, live |-> Release(lv, new.fr), tree |-> t,
                       rv |-> -1, fr |-> new.fr]

avl_find(h, t, target) ==
    IF target = NULL THEN NULL ELSE _avl_find(h, t.root, target)

avl_walk(h, t, order) == _avl_walk(h, t.root, order)

----------------------------------------------------------------------------
(* The facade takes pointers: p is NULL or the id of a struct of trs. Each *)
(* function tests the pointer first; rv is its return value, fr the calls  *)
(* of the destroy hook and out the calls of the walk action it made.       *)

Nothing(h, lv, trs, ret) ==
    [h |-> h, live |-> lv, trs |-> trs, rv |-> ret, fr |-> <<>>, out |-> <<>>]

\* if (!tree || !item) goto exit, rv being -1
avl_insert_p(h, lv, trs, p, it) ==
    IF p = NULL THEN Nothing(h, lv, trs, -1)
    ELSE [h |-> avl_insert(h, lv, trs[p], it).h,
          live |-> avl_insert(h, lv, trs[p], it).live,
          trs |-> [trs EXCEPT ![p] = avl_insert(h, lv, trs[p], it).tree],
          rv |-> avl_insert(h, lv, trs[p], it).rv,
          fr |-> <<>>, out |-> <<>>]

\* if (!tree || !target) goto exit, rv being -1
avl_delete_p(h, lv, trs, p, target) ==
    IF p = NULL THEN Nothing(h, lv, trs, -1)
    ELSE [h |-> avl_delete(h, lv, trs[p], target).h,
          live |-> avl_delete(h, lv, trs[p], target).live,
          trs |-> [trs EXCEPT ![p] = avl_delete(h, lv, trs[p], target).tree],
          rv |-> avl_delete(h, lv, trs[p], target).rv,
          fr |-> avl_delete(h, lv, trs[p], target).fr, out |-> <<>>]

\* if (!tree || !target) goto exit, node being NULL
avl_find_p(h, lv, trs, p, target) ==
    IF p = NULL THEN Nothing(h, lv, trs, NULL)
    ELSE Nothing(h, lv, trs, avl_find(h, trs[p], target))

\* if (!tree) goto exit, new_tree being NULL
avl_dup_p(h, lv, trs, p, refs) ==
    IF p = NULL THEN Nothing(h, lv, trs, NULL)
    ELSE [h |-> avl_dup(h, lv, trs[p], refs).h,
          live |-> avl_dup(h, lv, trs[p], refs).live,
          trs |-> [trs EXCEPT ![2] = avl_dup(h, lv, trs[p], refs).tree],
          rv |-> 2, fr |-> <<>>, out |-> <<>>]

\* if (!tree || !action) goto exit
avl_walk_p(h, lv, trs, p, order, action) ==
    IF p = NULL \/ action = NULL THEN Nothing(h, lv, trs, NULL)
    ELSE [h |-> h, live |-> lv, trs |-> trs, rv |-> NULL, fr |-> <<>>,
          out |-> avl_walk(h, trs[p], order)]

\* if (!tree) return
avl_free_p(h, lv, trs, p) ==
    IF p = NULL THEN Nothing(h, lv, trs, NULL)
    ELSE [h |-> avl_free(h, lv, trs[p]).h,
          live |-> avl_free(h, lv, trs[p]).live,
          trs |-> [trs EXCEPT ![p] = avl_new],
          rv |-> NULL, fr |-> avl_free(h, lv, trs[p]).fr, out |-> <<>>]

----------------------------------------------------------------------------
(* The caller: a tree made by avl_new with avl_set_cmp(tree, compare), and *)
(* a copy of it made by avl_dup.                                           *)

TreeIds == {1, 2}

Blank == [a \in Addr \cup {Probe} |-> Zeroed]

\* every address a tree of trs reaches
Held(h, trs, ids) == UNION {Reach(h, trs[t].root) : t \in ids}

\* the state a facade call is made in, t and arg being its arguments
Snap(h, lv, t, arg) ==
    [heap |-> h, live |-> lv, tree |-> tree, made |-> made, t |-> t, arg |-> arg]

\* a tree references freed memory: an access to it may fault
Dangling == \E n \in Held(heap, tree, made) : n \notin live

\* _avl_insert and _avl_find call compare without testing it: on a tree that
\* has a node and no comparator the call goes through a null pointer
NullCompare(t) == t.cmp_node = NULL /\ t.root # NULL

\* tree 1 is there, trs being the structs
Start(trs) ==
    /\ heap = Blank
    /\ live = {}
    /\ tree = trs
    /\ made = {1}
    /\ item = NULL
    /\ op = "avl_new"
    /\ rv = 0
    /\ out = <<>>
    /\ pre = [heap |-> Blank, live |-> {}, tree |-> [t \in TreeIds |-> avl_new],
              made |-> {}, t |-> 1, arg |-> NULL]
    /\ crashed = FALSE

\* the state after avl_new and avl_set_cmp(tree, compare)
Init == Start([t \in TreeIds |-> avl_set_cmp(avl_new, Compare)])

\* the state after avl_new, no setter called yet
InitNew == Start([t \in TreeIds |-> avl_new])

\* rv = avl_insert(tree, avl_node_new(tree, v)), on a tree of fewer than
\* MaxNodes nodes; a node the tree did not take stays with the caller
Insert ==
    /\ ~crashed
    /\ item = NULL
    /\ \E t \in made, v \in Keys :
         /\ ~NullCompare(tree[t])
         /\ Cardinality(Reach(heap, tree[t].root)) < MaxNodes
         /\ LET a   == malloc(live, Held(heap, tree, made))
                h0  == _avl_node_new(heap, a, v)
                res == avl_insert(h0, live \cup {a}, tree[t], a)
                trs == [tree EXCEPT ![t] = res.tree]
            IN  /\ tree' = trs
                /\ live' = res.live
                /\ rv' = res.rv
                /\ item' = IF a \in Reach(res.h, res.tree.root) THEN NULL ELSE a
                /\ heap' = Scrub(res.h, res.live, Held(res.h, trs, made) \cup {a})
                /\ pre' = Snap(h0, live \cup {a}, t, a)
    /\ op' = "avl_insert"
    /\ out' = <<>>
    /\ UNCHANGED <<made, crashed>>

\* avl_node_free(tree, item): the caller disposes of the node it still owns
NodeFree ==
    /\ ~crashed
    /\ item # NULL
    /\ live' = Release(live, free_node(heap, <<>>, item))
    /\ heap' = Scrub(heap, live', Held(heap, tree, made))
    /\ item' = NULL
    /\ op' = "avl_node_free"
    /\ rv' = 0
    /\ out' = <<>>
    /\ pre' = Snap(heap, live, 1, item)
    /\ UNCHANGED <<tree, made, crashed>>

\* rv = avl_delete(tree, &probe), probe.value = k; out is the log of the calls
\* of free
Delete ==
    /\ ~crashed
    /\ \E t \in made, k \in Keys :
         LET h0  == [heap EXCEPT ![Probe].value = k]
             res == avl_delete(h0, live, tree[t], Probe)
             trs == [tree EXCEPT ![t] = res.tree]
         IN  /\ tree' = trs
             /\ live' = res.live
             /\ rv' = res.rv
             /\ heap' = Scrub(res.h, res.live, Held(res.h, trs, made) \cup {item})
             /\ pre' = Snap(h0, live, t, Probe)
             /\ out' = res.fr
    /\ op' = "avl_delete"
    /\ UNCHANGED <<made, item, crashed>>

\* rv = avl_delete(tree, &probe), probe.value being the key of the avl_insert
\* the state comes from: the second call of the pair insert k, delete k. pre
\* stays the state the insert was called in
DeleteInserted ==
    /\ ~crashed
    /\ op = "avl_insert"
    /\ LET h0  == [heap EXCEPT ![Probe].value = pre.heap[pre.arg].value]
           res == avl_delete(h0, live, tree[pre.t], Probe)
           trs == [tree EXCEPT ![pre.t] = res.tree]
       IN  /\ tree' = trs
           /\ live' = res.live
           /\ rv' = res.rv
           /\ heap' = Scrub(res.h, res.live, Held(res.h, trs, made) \cup {item})
           /\ out' = res.fr
    /\ op' = "avl_insert, avl_delete"
    /\ UNCHANGED <<made, item, crashed, pre>>

\* mutant: a find that makes the node it found the root of the tree
Find_FoundBecomesRoot ==
    /\ ~crashed
    /\ \E t \in made, k \in Keys :
         LET h0 == [heap EXCEPT ![Probe].value = k]
         IN  /\ rv' = avl_find(h0, tree[t], Probe)
             /\ tree' = [tree EXCEPT ![t].root = avl_find(h0, tree[t], Probe)]
             /\ pre' = Snap(h0, live, t, Probe)
    /\ op' = "avl_find"
    /\ out' = <<>>
    /\ UNCHANGED <<heap, live, made, item, crashed>>

\* rv = avl_find(tree, &probe), probe.value = k
Find ==
    /\ ~crashed
    /\ \E t \in made, k \in Keys :
         LET h0 == [heap EXCEPT ![Probe].value = k]
         IN  /\ ~NullCompare(tree[t])
             /\ rv' = avl_find(h0, tree[t], Probe)
             /\ pre' = Snap(h0, live, t, Probe)
    /\ op' = "avl_find"
    /\ out' = <<>>
    /\ UNCHANGED <<heap, live, tree, made, item, crashed>>

\* avl_walk(tree, order, action), the action recording the node it is given
Walk ==
    /\ ~crashed
    /\ \E t \in made, order \in Orders :
         /\ out' = avl_walk(heap, tree[t], order)
         /\ rv' = order
         /\ pre' = Snap(heap, live, t, NULL)
    /\ op' = "avl_walk"
    /\ UNCHANGED <<heap, live, tree, made, item, crashed>>

\* tree 2 = avl_dup(tree 1), when memory for the copies is there and the
\* caller holds no node of its own
Dup ==
    /\ ~crashed
    /\ 2 \notin made
    /\ item = NULL
    /\ Cardinality(Addr \ (live \cup Held(heap, tree, made) \cup {item}))
         >= Cardinality(Reach(heap, tree[1].root))
    /\ LET res == avl_dup(heap, live, tree[1], Held(heap, tree, made) \cup {item})
       IN  /\ heap' = res.h
           /\ live' = res.live
           /\ tree' = [tree EXCEPT ![2] = res.tree]
    /\ made' = made \cup {2}
    /\ op' = "avl_dup"
    /\ rv' = 2
    /\ out' = <<>>
    /\ pre' = Snap(heap, live, 1, NULL)
    /\ UNCHANGED <<item, crashed>>

\* avl_free(tree 2)
Free ==
    /\ ~crashed
    /\ 2 \in made
    /\ LET res == avl_free(heap, live, tree[2])
       IN  /\ live' = res.live
           /\ heap' = Scrub(res.h, res.live, Held(res.h, tree, made \ {2}) \cup {item})
           /\ out' = res.fr
    /\ tree' = [tree EXCEPT ![2] = avl_new]
    /\ made' = made \ {2}
    /\ op' = "avl_free"
    /\ rv' = 0
    /\ pre' = Snap(heap, live, 2, NULL)
    /\ UNCHANGED <<item, crashed>>

\* a facade call f(p, arg) with the tree or the node absent has returned res.
\* out is every call of a hook or of the walk action it made
Absent(f, h0, res, p, arg) ==
    /\ ~crashed
    /\ item = NULL
    /\ p = NULL \/ arg = NULL
    /\ heap' = Scrub(res.h, res.live, Held(res.h, res.trs, made))
    /\ live' = res.live
    /\ tree' = res.trs
    /\ rv' = res.rv
    /\ out' = res.fr \o res.out
    /\ op' = f
    /\ pre' = Snap(h0, live, p, arg)
    /\ UNCHANGED <<made, item, crashed>>

\* the heap with key k in the caller's node when the call is given one
WithProbe(arg, k) == IF arg = NULL THEN heap ELSE [heap EXCEPT ![Probe].value = k]

\* avl_insert(NULL, node), avl_insert(tree, NULL), avl_insert(NULL, NULL)
InsertAbsent ==
    \E p \in made \cup {NULL}, arg \in {NULL, Probe} :
      \E k \in IF arg = NULL THEN {1} ELSE Keys :
        Absent("avl_insert", WithProbe(arg, k),
               avl_insert_p(WithProbe(arg, k), live, tree, p, arg), p, arg)

\* avl_delete(NULL, target), avl_delete(tree, NULL), avl_delete(NULL, NULL)
DeleteAbsent ==
    \E p \in made \cup {NULL}, arg \in {NULL, Probe} :
      \E k \in IF arg = NULL THEN {1} ELSE Keys :
        Absent("avl_delete", WithProbe(arg, k),
               avl_delete_p(WithProbe(arg, k), live, tree, p, arg), p, arg)

\* avl_find(NULL, target), avl_find(tree, NULL), avl_find(NULL, NULL)
FindAbsent ==
    \E p \in made \cup {NULL}, arg \in {NULL, Probe} :
      \E k \in IF arg = NULL THEN {1} ELSE Keys :
        Absent("avl_find", WithProbe(arg, k),
               avl_find_p(WithProbe(arg, k), live, tree, p, arg), p, arg)

\* avl_dup(NULL)
DupAbsent ==
    Absent("avl_dup", heap, avl_dup_p(heap, live, tree, NULL, Held(heap, tree, made)),
           NULL, NULL)

\* avl_walk(NULL, order, action)
WalkAbsent ==
    \E order \in Orders :
        Absent("avl_walk", heap, avl_walk_p(heap, live, tree, NULL, order, "action"),
               NULL, NULL)

\* avl_free(NULL)
FreeAbsent ==
    Absent("avl_free", heap, avl_free_p(heap, live, tree, NULL), NULL, NULL)

\* avl_set_cmp(tree 1, cmp_node): the comparator is installed or taken away
SetCmp ==
    /\ ~crashed
    /\ \E cmp_node \in {NULL, Compare} :
         /\ cmp_node # tree[1].cmp_node
         /\ tree' = [tree EXCEPT ![1] = avl_set_cmp(tree[1], cmp_node)]
    /\ op' = "avl_set_cmp"
    /\ rv' = 0
    /\ out' = <<>>
    /\ pre' = Snap(heap, live, 1, NULL)
    /\ UNCHANGED <<heap, live, made, item, crashed>>

\* avl_free(tree 1) is called: with a root it enters _avl_destroy, rv being
\* the local root of the loop; with none it frees the struct and returns
FreeCall ==
    /\ ~crashed
    /\ 1 \in made
    /\ item = NULL
    /\ op \notin {"_avl_destroy", "_avl_delete"}
    /\ op' = IF tree[1].root # NULL THEN "_avl_destroy" ELSE "avl_free"
    /\ made' = IF tree[1].root # NULL THEN made ELSE made \ {1}
    /\ tree' = IF tree[1].root # NULL THEN tree ELSE [tree EXCEPT ![1] = avl_new]
    /\ rv' = tree[1].root
    /\ out' = <<>>
    /\ pre' = Snap(heap, live, 1, NULL)
    /\ UNCHANGED <<heap, live, item, crashed>>

\* while (root): the test of the loop of _avl_destroy; when it fails
\* _avl_destroy returns, avl_free frees the struct and returns
DestroyTest ==
    /\ ~crashed
    /\ op = "_avl_destroy"
    /\ op' = IF rv # NULL THEN "_avl_delete" ELSE "avl_free"
    /\ made' = IF rv # NULL THEN made ELSE made \ {1}
    /\ tree' = IF rv # NULL THEN tree ELSE [tree EXCEPT ![1] = avl_new]
    /\ heap' = IF rv # NULL THEN heap ELSE Scrub(heap, live, {})
    /\ UNCHANGED <<live, item, rv, out, pre, crashed>>

\* root = _avl_delete(root, root, compare, free_node): the body of the loop
DestroyBody ==
    /\ ~crashed
    /\ op = "_avl_delete"
    /\ LET res == _avl_delete(heap, out, rv, rv, tree[1].cmp_node)
       IN  /\ heap' = res.h
           /\ live' = Release(live, res.fr)
           /\ out' = res.fr
           /\ rv' = res.r
    /\ op' = "_avl_destroy"
    /\ UNCHANGED <<tree, made, item, pre, crashed>>

\* a read or write of freed memory, or an avl_insert or avl_find that calls
\* a null comparator, faults and the process ends
Fault ==
    /\ ~crashed
    /\ Dangling \/ \E t \in made : NullCompare(tree[t])
    /\ crashed' = TRUE
    /\ heap' = Blank
    /\ live' = {}
    /\ tree' = [t \in TreeIds |-> avl_new]
    /\ made' = {}
    /\ item' = NULL
    /\ op' = "fault"
    /\ rv' = 0
    /\ out' = <<>>
    /\ pre' = [heap |-> Blank, live |-> {}, tree |-> [t \in TreeIds |-> avl_new],
               made |-> {}, t |-> 1, arg |-> NULL]

\* one tree, never copied
Next == Insert \/ NodeFree \/ Delete \/ DeleteInserted \/ Find \/ Walk \/ Fault

Spec == Init /\ [][Next]_vars

\* a tree is built and copied; one call is made on the tree or on its copy,
\* the copy is freed and the run ends
NextDup ==
    \/ made = {1} /\ op # "avl_free" /\ (Insert \/ NodeFree \/ Delete \/ Dup \/ Fault)
    \/ made = {1, 2} /\ op = "avl_dup" /\ (Insert \/ Delete \/ Find \/ Walk \/ Fault)
    \/ made = {1, 2} /\ op # "avl_dup" /\ Free

SpecDup == Init /\ [][NextDup]_vars

\* a tree is built with the comparator installed or not, and freed; the loop
\* of _avl_destroy is taken step by step
Building == op \notin {"_avl_destroy", "_avl_delete", "avl_free"}

NextFree ==
    \/ Building /\ (SetCmp \/ Insert \/ NodeFree \/ Delete \/ Fault)
    \/ FreeCall
    \/ DestroyTest
    \/ DestroyBody
    \/ ~Building /\ rv # NULL /\ ~(Reach(heap, rv) \subseteq live) /\ Fault

\* a facade call was made with no tree, or with a tree and no node
AbsentCall ==
    /\ ~crashed
    /\ op \in {"avl_insert", "avl_delete", "avl_find", "avl_dup", "avl_walk", "avl_free"}
    /\ pre.t = NULL \/ (pre.arg = NULL /\ op \in {"avl_insert", "avl_delete", "avl_find"})

\* a tree is built, one call is made with the tree or the node absent, and
\* the run ends
NextNull ==
    \/ ~AbsentCall /\ (Insert \/ NodeFree \/ Delete \/ Fault)
    \/ ~AbsentCall /\ (InsertAbsent \/ DeleteAbsent \/ FindAbsent)
    \/ ~AbsentCall /\ (DupAbsent \/ WalkAbsent \/ FreeAbsent)

SpecNull == Init /\ [][NextNull]_vars

\* the process goes on running: a step of the loop that can be taken is taken
SpecFree ==
    /\ InitNew
    /\ [][NextFree]_vars
    /\ WF_vars(DestroyTest)
    /\ WF_vars(DestroyBody)

----------------------------------------------------------------------------
(* What the claims speak of: the tree a call was made on, before and after *)

PreRoot == pre.tree[pre.t].root
PostRoot == tree[pre.t].root

\* the keys a tree holds
KeysOf(h, r) == {h[n].value : n \in Reach(h, r)}
PreKeys == KeysOf(pre.heap, PreRoot)
PostKeys == KeysOf(heap, PostRoot)

\* the key of the node argument of the call
ArgKey == pre.heap[pre.arg].value

\* avl_find with a probe of key k
FindKey(h, t, k) == avl_find([h EXCEPT ![Probe].value = k], t, Probe)

\* each node of seq compares greater than the one before it
Ascending(h, seq) ==
    \A i \in 1..(Len(seq) - 1) : compare(h, seq[i], seq[i + 1]) < 0

\* the keys a walk passed to its action
WalkKeys(h, seq) == {h[seq[i]].value : i \in DOMAIN seq}

\* the AVL property at node n
Balanced(h, n) ==
    /\ height(h, h[n].left) - height(h, h[n].right) \in {-1, 0, 1}
    /\ h[n].height = 1 + max(height(h, h[n].left), height(h, h[n].right))

\* the call left every node of the tree it was made on as it was
NodesUntouched ==
    /\ PostRoot = PreRoot
    /\ Reach(heap, PostRoot) = Reach(pre.heap, PreRoot)
    /\ \A n \in Reach(pre.heap, PreRoot) : heap[n] = pre.heap[n]

----------------------------------------------------------------------------
(* C1: after any sequence of avl_insert and avl_delete calls, every node   *)
(* reachable from a tree's root has children whose heights differ by at    *)
(* most one, and its height field is one more than the greater of them.    *)
C1_AvlInvariant ==
    \A t \in made : \A n \in Reach(heap, tree[t].root) : Balanced(heap, n)

\* a delete from a four-node tree that rotated at the root
C1_Witness ==
    /\ op = "avl_delete"
    /\ rv = 0
    /\ Cardinality(PreKeys) = 4
    /\ PostRoot # PreRoot

(* C2: avl_walk with avl_forward_order passes the nodes to the action in   *)
(* ascending key order, each key greater than the one before.              *)
C2_ForwardAscending ==
    (op = "avl_walk" /\ rv = "forward") => Ascending(heap, out)

C2_Witness ==
    /\ op = "avl_walk"
    /\ rv = "forward"
    /\ Len(out) >= 4

C4_DeletePresent ==
    (op = "avl_delete" /\ ArgKey \in PreKeys) =>
        /\ rv = 0
        /\ PostKeys = PreKeys \ {ArgKey}
        /\ FindKey(heap, tree[pre.t], ArgKey) = NULL
        /\ \A j \in PreKeys \ {ArgKey} : FindKey(heap, tree[pre.t], j) # NULL

(* C5: after avl_new, avl_dup, avl_insert and avl_delete, the cached       *)
(* height of a tree is the height field of its root, or 0 when the tree    *)
(* has no nodes; the tree avl_dup returns included.                        *)
C5_CachedHeight ==
    \A t \in made :
        IF tree[t].root = NULL \/ tree[t].root \notin live
          THEN tree[t].height = 0
          ELSE tree[t].height = heap[tree[t].root].height

(* C6: avl_insert returns -1 when the tree already holds a key equal to    *)
(* the item's.                                                             *)
C6_DuplicateFails ==
    (op = "avl_insert" /\ ArgKey \in PreKeys) => rv = -1

(* C7: avl_insert of an item whose key the tree already holds leaves the   *)
(* tree as it was (root, every node, cached height), the item is not       *)
(* reachable from the root, and the item is not destroyed.                 *)
C7_DuplicateFrame ==
    (op = "avl_insert" /\ ArgKey \in PreKeys) =>
        /\ NodesUntouched
        /\ tree[pre.t].height = pre.tree[pre.t].height
        /\ pre.arg \notin Reach(heap, PostRoot)
        /\ pre.arg \in live
        /\ heap[pre.arg] = pre.heap[pre.arg]

(* C8: avl_delete returns -1 when no key of the tree equals the target's,  *)
(* for an empty tree and for a tree with nodes.                            *)
C8_MissingFails ==
    (op = "avl_delete" /\ ArgKey \notin PreKeys) => rv = -1

C10_FailureFrame ==
    (op \in {"avl_insert", "avl_delete"} /\ rv = -1) =>
        /\ NodesUntouched
        /\ tree[pre.t].height = pre.tree[pre.t].height
        /\ live = pre.live

----------------------------------------------------------------------------
\* the node avl_find returned for key j before the call
FoundBefore(j) == FindKey(pre.heap, pre.tree[pre.t], j)

\* the node avl_find returns for key j after the call
FoundAfter(j) == FindKey(heap, tree[pre.t], j)

\* the nodes the calls of free logged in out were given
FreedNodes == {out[i].node : i \in DOMAIN out}

(* C11: over avl_insert, avl_delete and a closing avl_free, no node is     *)
(* passed to free more than once (every node freed was live and is freed   *)
(* once in the call), and after avl_insert or avl_delete returns no        *)
(* destroyed node is reachable from the root.                              *)
C11_SingleRelease ==
    /\ op \in {"avl_delete", "avl_free"} =>
          /\ FreedNodes \subseteq pre.live
          /\ Cardinality(FreedNodes) = Len(out)
    /\ op \in {"avl_insert", "avl_delete"} =>
          Reach(heap, PostRoot) \subseteq live

(* C12: avl_delete of key k destroys no node of another key: for every key *)
(* j of the tree other than k, the node avl_find returned for j before the *)
(* call is still live and is still the node avl_find returns for j.        *)
C12_OtherNodesKept ==
    op = "avl_delete" =>
        \A j \in PreKeys \ {ArgKey} :
            FoundBefore(j) \in pre.live =>
                /\ FoundBefore(j) \in live
                /\ FoundAfter(j) = FoundBefore(j)

(* C13: avl_delete of a key k the tree holds calls free exactly once, on a *)
(* node of the tree whose value is at that moment the payload of k, and    *)
(* the payload of every other key is still held by a node of the tree.     *)
C13_DestroyOnce ==
    (op = "avl_delete" /\ ArgKey \in PreKeys) =>
        /\ Len(out) = 1
        /\ out[1].node \in Reach(pre.heap, PreRoot)
        /\ out[1].value = ArgKey
        /\ PreKeys \ {ArgKey} \subseteq PostKeys

\* a delete at a node with two children: the node freed is not the one that
\* held the key
C13_Witness ==
    /\ op = "avl_delete"
    /\ ArgKey \in PreKeys
    /\ pre.heap[FoundBefore(ArgKey)].left # NULL
    /\ pre.heap[FoundBefore(ArgKey)].right # NULL
    /\ Len(out) = 1
    /\ out[1].node # FoundBefore(ArgKey)

\* the keys held by the nodes of a tree that were not destroyed
LiveKeys(h, lv, r) == {h[n].value : n \in Reach(h, r) \cap lv}

(* C14: avl_find returns a node of the tree whose key equals the probe's   *)
(* when the tree holds that key, and NULL when it does not, an empty tree  *)
(* (one never filled, or one emptied by deletes) included.                 *)
C14_Find ==
    op = "avl_find" =>
        IF ArgKey \in LiveKeys(pre.heap, pre.live, PreRoot)
          THEN /\ rv \in Reach(heap, PostRoot) \cap live
               /\ heap[rv].value = ArgKey
          ELSE rv = NULL

----------------------------------------------------------------------------
\* the keys of a tree in the order of its forward walk
ForwardKeys(h, t) ==
    [i \in DOMAIN avl_walk(h, t, "forward") |-> h[avl_walk(h, t, "forward")[i]].value]

\* the tree a call on one of the two trees was not made on
Other == CHOOSE o \in TreeIds : o # pre.t

\* tree t and each of its nodes are as they were before the call
TreeUntouched(t) ==
    /\ tree[t] = pre.tree[t]
    /\ Reach(heap, tree[t].root) = Reach(pre.heap, pre.tree[t].root)
    /\ \A n \in Reach(pre.heap, pre.tree[t].root) :
          /\ heap[n] = pre.heap[n]
          /\ n \in live <=> n \in pre.live

(* C16: avl_dup returns a tree whose forward walk yields the same key      *)
(* sequence as the source's and whose every node satisfies the AVL         *)
(* balance and height property, whatever the shape of the source.          *)
C16_DupFidelity ==
    op = "avl_dup" =>
        /\ ForwardKeys(heap, tree[2]) = ForwardKeys(heap, tree[1])
        /\ \A n \in Reach(heap, tree[2].root) : Balanced(heap, n)

\* a copy of a tree of three or more nodes that has another shape
C16_Witness ==
    /\ op = "avl_dup"
    /\ Len(ForwardKeys(heap, tree[1])) >= 3
    /\ heap[tree[2].root].value # heap[tree[1].root].value

(* C17: the tree avl_dup returns shares no node with its source, avl_dup   *)
(* leaves the source as it was, and a later avl_insert or avl_delete on    *)
(* one of the two trees changes neither the keys nor any node of the other.*)
C17_DupIndependent ==
    /\ op = "avl_dup" =>
          /\ Reach(heap, tree[1].root) \cap Reach(heap, tree[2].root) = {}
          /\ TreeUntouched(1)
    /\ (op \in {"avl_insert", "avl_delete"} /\ pre.made = TreeIds) =>
          /\ TreeUntouched(Other)
          /\ KeysOf(heap, tree[Other].root) = KeysOf(pre.heap, pre.tree[Other].root)

\* a delete that took a node out of one of two trees of three or more nodes
C17_Witness ==
    /\ op = "avl_delete"
    /\ pre.made = TreeIds
    /\ rv = 0
    /\ Len(out) = 1
    /\ Cardinality(Reach(heap, tree[Other].root)) >= 3

----------------------------------------------------------------------------
\* the depth of node n in the tree under r, the root being at depth 1
RECURSIVE DepthOf(_, _, _)
DepthOf(h, r, n) ==
    IF r = n THEN 1
    ELSE IF n \in Reach(h, h[r].left) THEN 1 + DepthOf(h, h[r].left, n)
    ELSE 1 + DepthOf(h, h[r].right, n)

\* the nodes a walk passed to its action
Visited == {out[i] : i \in DOMAIN out}

\* seq from its last element to its first
Reversed(seq) == [i \in DOMAIN seq |-> seq[Len(seq) + 1 - i]]

(* C18: avl_walk with avl_tree_order visits the nodes in level order: no   *)
(* node is visited before a node that lies nearer to the root.             *)
C18_LevelOrder ==
    (op = "avl_walk" /\ rv = "tree") =>
        \A i, j \in DOMAIN out :
            i < j => DepthOf(heap, PostRoot, out[i]) <= DepthOf(heap, PostRoot, out[j])

(* C19: for each of the five orders, avl_walk passes to the action every   *)
(* node of the tree exactly once, and nothing that is not a node of the    *)
(* tree (a destroyed node is not one).                                     *)
C19_VisitsEachOnce ==
    op = "avl_walk" =>
        /\ Visited = Reach(heap, PostRoot) \cap live
        /\ Len(out) = Cardinality(Visited)

(* C20: the nodes avl_walk visits in reverse order are those it visits in  *)
(* forward order, from the last to the first.                              *)
C20_ReverseMirrors ==
    (op = "avl_walk" /\ rv = "reverse") =>
        out = Reversed(avl_walk(heap, tree[pre.t], "forward"))

\* a reverse walk of a tree whose root has a left child
C20_Witness ==
    /\ op = "avl_walk"
    /\ rv = "reverse"
    /\ Len(out) >= 3
    /\ heap[PostRoot].left # NULL

----------------------------------------------------------------------------
(* The unwind of one call, node by node: for each node of the search path, *)
(* deepest first, the heap as it stands when the balance factor of the     *)
(* node is computed, that is once the call below has returned and the      *)
(* height of the node is updated.                                          *)

At(h, n) == [h |-> h, n |-> n]

RECURSIVE InsertUnwind(_, _, _)
InsertUnwind(h, node, it) ==
    IF node = NULL \/ it = NULL THEN <<>>
    ELSE IF compare(h, it, node) < 0 THEN
        Append(InsertUnwind(h, h[node].left, it),
               At(SetHeight(LinkLeft(_avl_insert(h, h[node].left, it), node), node),
                  node))
    ELSE IF compare(h, it, node) > 0 THEN
        Append(InsertUnwind(h, h[node].right, it),
               At(SetHeight(LinkRight(_avl_insert(h, h[node].right, it), node), node),
                  node))
    ELSE <<>>

\* the two-children case of _avl_delete at rt, temp being the successor
DeleteUnwindTwo(h, rt, temp) ==
    At(SetHeight(LinkRight(_avl_delete(SwapValue(h, rt, temp), <<>>, h[rt].right, temp,
                                       Compare),
                           rt), rt),
       rt)

RECURSIVE DeleteUnwind(_, _, _)
DeleteUnwind(h, rt, target) ==
    IF rt = NULL \/ target = NULL THEN <<>>
    ELSE IF compare(h, target, rt) < 0 THEN
        Append(DeleteUnwind(h, h[rt].left, target),
               At(SetHeight(LinkLeft(_avl_delete(h, <<>>, h[rt].left, target, Compare), rt),
                            rt),
                  rt))
    ELSE IF compare(h, target, rt) > 0 THEN
        Append(DeleteUnwind(h, h[rt].right, target),
               At(SetHeight(LinkRight(_avl_delete(h, <<>>, h[rt].right, target, Compare), rt),
                            rt),
                  rt))
    ELSE IF h[rt].left = NULL /\ h[rt].right = NULL THEN <<>>
    ELSE IF h[rt].left = NULL THEN
        <<At(SetHeight([h EXCEPT ![rt] = h[h[rt].right], ![h[rt].right] = h[rt]], rt), rt)>>
    ELSE IF h[rt].right = NULL THEN
        <<At(SetHeight([h EXCEPT ![rt] = h[h[rt].left], ![h[rt].left] = h[rt]], rt), rt)>>
    ELSE
        Append(DeleteUnwind(SwapValue(h, rt, minimum_node(h, h[rt].right)),
                            h[rt].right, minimum_node(h, h[rt].right)),
               DeleteUnwindTwo(h, rt, minimum_node(h, h[rt].right)))

\* the unwind of the call the state comes from
Unwind ==
    IF op = "avl_insert" THEN InsertUnwind(pre.heap, PreRoot, pre.arg)
    ELSE IF op = "avl_delete" THEN DeleteUnwind(pre.heap, PreRoot, pre.arg)
    ELSE <<>>

\* what the call hands back at a node of its unwind: the subtree root
Returned(at) ==
    IF op = "avl_insert" THEN InsertRebalance(at.h, at.n, pre.arg)
    ELSE DeleteRebalance(at.h, at.n)

\* the balance factor of the subtree root handed back
ReturnedBalance(at) == avl_get_balance(Returned(at).h, Returned(at).r)

(* C25: during the unwind of one avl_insert or avl_delete, every balance   *)
(* factor computed at a node of the search path is in -2..2, and every     *)
(* node handed back as a subtree root has a balance factor in -1..1.       *)
C25_UnwindBalance ==
    (~crashed /\ op \in {"avl_insert", "avl_delete"}) =>
        \A i \in DOMAIN Unwind :
            /\ avl_get_balance(Unwind[i].h, Unwind[i].n) \in -2..2
            /\ ReturnedBalance(Unwind[i]) \in -1..1

\* an insert whose unwind met a balance factor of 2 or -2 at a node above
\* the parent of the new node, and handed back a balanced subtree there
C25_Witness ==
    /\ ~crashed
    /\ op = "avl_insert"
    /\ Len(Unwind) >= 2
    /\ \E i \in DOMAIN Unwind :
           /\ avl_get_balance(Unwind[i].h, Unwind[i].n) \in {-2, 2}
           /\ ReturnedBalance(Unwind[i]) \in -1..1

----------------------------------------------------------------------------
\* the node a delete matched, and its in-order successor before the call
Matched == FindKey(pre.heap, pre.tree[pre.t], ArgKey)
Successor == minimum_node(pre.heap, pre.heap[Matched].right)

\* the delete matched a live node with two children
TwoChildren ==
    /\ ~crashed
    /\ op = "avl_delete"
    /\ Reach(pre.heap, PreRoot) \subseteq pre.live
    /\ Matched # NULL
    /\ pre.heap[Matched].left # NULL
    /\ pre.heap[Matched].right # NULL

(* C26: when a delete matches a node with two children, the call frees     *)
(* exactly one node object, the in-order successor of the matched node     *)
(* (the leftmost node of its right subtree), at that moment holding the    *)
(* deleted key, and the matched node ends up holding the successor's key.  *)
C26_SuccessorRemoved ==
    TwoChildren =>
        /\ Len(out) = 1
        /\ out[1].node = Successor
        /\ out[1].value = ArgKey
        /\ heap[Matched].value = pre.heap[Successor].value
        /\ Matched \in Reach(heap, PostRoot)

----------------------------------------------------------------------------
\* the calls of avl_rotate_left and avl_rotate_right made at a node of the
\* unwind: none when the node is handed back, one when a child of it is, two
\* when a grandchild is
Rotations(at) ==
    IF Returned(at).r = at.n THEN 0
    ELSE IF Returned(at).r \in {at.h[at.n].left, at.h[at.n].right} THEN 1
    ELSE 2

\* the calls made at the first i nodes of an unwind
RECURSIVE RotationCalls(_, _)
RotationCalls(seq, i) ==
    IF i = 0 THEN 0 ELSE Rotations(seq[i]) + RotationCalls(seq, i - 1)

----------------------------------------------------------------------------
\* the height of a tree: the height field of its root, 0 when it has no root
\* or when its root is a node that was destroyed
RootHeight(h, lv, r) == IF r = NULL \/ r \notin lv THEN 0 ELSE h[r].height

(* C28: an avl_insert changes the height of the root by 0 or +1, and an    *)
(* avl_delete by 0 or -1, a deleted last node counting as height 0.        *)
C28_HeightStep ==
    /\ (~crashed /\ op = "avl_insert") =>
           RootHeight(heap, live, PostRoot)
             - RootHeight(pre.heap, pre.live \ {pre.arg}, PreRoot) \in {0, 1}
    /\ (~crashed /\ op = "avl_delete") =>
           RootHeight(heap, live, PostRoot)
             - RootHeight(pre.heap, pre.live, PreRoot) \in {-1, 0}

----------------------------------------------------------------------------
\* the pair of calls insert k, delete k on a tree that did not hold k
FreshPair ==
    /\ ~crashed
    /\ op = "avl_insert, avl_delete"
    /\ ArgKey \notin LiveKeys(pre.heap, pre.live \ {pre.arg}, PreRoot)

(* C23: for every tree, the empty tree included, and every key k it does   *)
(* not hold, avl_insert of k followed by avl_delete of k leaves a tree     *)
(* whose key set and whose forward walk are what they were before the      *)
(* insert.                                                                 *)
C23_InsertDelete ==
    FreshPair =>
        /\ LiveKeys(heap, live, PostRoot)
             = LiveKeys(pre.heap, pre.live \ {pre.arg}, PreRoot)
        /\ ForwardKeys(heap, tree[pre.t]) = ForwardKeys(pre.heap, pre.tree[pre.t])

----------------------------------------------------------------------------
(* C21: avl_free terminates on every tree the facade operations can build, *)
(* whichever hooks are installed: once _avl_destroy is entered, avl_free   *)
(* returns (or the process has ended on a fault).                          *)
C21_FreeTerminates ==
    (op = "_avl_destroy") ~> (op = "avl_free" \/ crashed)

----------------------------------------------------------------------------
\* the nodes a tree held when the call was made: those it reached that were
\* not destroyed
PreNodes == Reach(pre.heap, PreRoot) \cap pre.live

(* C22: avl_free of a tree with a comparator holding n nodes calls the      *)
(* destroy hook (free) exactly n times, once on each node object of the     *)
(* tree: no node is left out and none is destroyed twice.                   *)
C22_FreeDestroysEach ==
    (~crashed /\ op = "avl_free" /\ pre.tree[pre.t].cmp_node # NULL) =>
        /\ Len(out) = Cardinality(PreNodes)
        /\ {out[i].node : i \in DOMAIN out} = PreNodes

----------------------------------------------------------------------------
(* C24: a facade call with an absent tree, or an absent node or target,    *)
(* reports failure and touches nothing: avl_insert and avl_delete return   *)
(* -1, avl_find and avl_dup return NULL, avl_walk and avl_free do nothing, *)
(* and no hook and no walk action is called.                               *)
C24_AbsentArgument ==
    AbsentCall =>
        /\ rv = IF op \in {"avl_insert", "avl_delete"} THEN -1 ELSE NULL
        /\ out = <<>>
        /\ live = pre.live
        /\ tree = pre.tree
        /\ made = pre.made
        /\ \A a \in Addr : heap[a] = pre.heap[a]

\* avl_insert(tree, NULL) on a tree of three nodes or more
C24_Witness ==
    /\ AbsentCall
    /\ op = "avl_insert"
    /\ pre.t = 1
    /\ pre.arg = NULL
    /\ Cardinality(Reach(heap, tree[1].root)) >= 3

====
